---- MODULE Spec2Model ----
(***************************************************************************)
(* A model of the Call class of src/lib/call.js: one call (session) from   *)
(* construction to termination.  The variables are the fields of one Call  *)
(* object, the collaborators' state the class reads or writes (the owning  *)
(* account's call registry, the signaling requests handed to the account   *)
(* and their pending callbacks, the 150 ms timers, the asynchronous        *)
(* operations of the RTCPeerConnection that are still in flight) and the   *)
(* 'stateChanged' notifications emitted so far.  Every action is one       *)
(* run-to-completion handler of the JavaScript event loop.  sendDtmf() and *)
(* the 'localStreamAdded', 'streamAdded' and 'dtmfToneSent' notifications  *)
(* write none of these variables and are left out.                         *)
(***************************************************************************)
EXTENDS Naturals, Sequences, FiniteSets

VARIABLES
    id,                 \* this._id
    direction,          \* this._direction
    pc,                 \* this._pc (NULL or an open RTCPeerConnection)
    state,              \* this._state
    terminated,         \* this._terminated
    incomingSdp,        \* this._incomingSdp
    remoteIdentity,     \* this._remoteIdentity
    delay_established,  \* this._delay_established
    setup_in_progress,  \* this._setup_in_progress
    calls,              \* TRUE while account._calls holds this call
    offerPending,       \* createLocalSdp(pc, 'offer') promises not yet settled
    srdOffer,           \* setRemoteDescription(offer) calls of answer() not yet called back
    answerSdp,          \* createLocalSdp(pc, 'answer') promises not yet settled
    srdAnswer,          \* setRemoteDescription(answer) calls of _handleEvent not yet called back
    cb,                 \* per request tag: _sendRequest callbacks not yet invoked
    timers,             \* armed setTimeout(..., 150) callbacks not yet fired
    sent,               \* per request tag: the requests handed to account._sendRequest, in order
    emitted,            \* the 'stateChanged' notifications, in order: <<old, new, reason>>
    thrown,             \* the exception the last handler raised to its caller, or NONE
    pcCreated,          \* how many RTCPeerConnection objects were constructed
    nEvents,            \* how many remote state events were handled
    hist                \* the order of accepted / established events and of the
                        \* callbacks of the remote-answer application (outgoing calls)

vars == <<id, direction, pc, state, terminated, incomingSdp, remoteIdentity,
          delay_established, setup_in_progress, calls, offerPending, srdOffer,
          answerSdp, srdAnswer, cb, timers, sent, emitted, thrown, pcCreated,
          nEvents, hist>>

\* The fields of the Call object itself.
fields == <<id, direction, pc, state, terminated, incomingSdp, remoteIdentity,
            delay_established, setup_in_progress>>

\* The asynchronous work in flight.
pending == <<offerPending, srdOffer, answerSdp, srdAnswer, cb, timers>>

(***************************************************************************)
(* Bounds of the model.                                                    *)
(***************************************************************************)
MaxEvents == 2          \* remote state events delivered to one call
MaxTerminate == 2       \* session-terminate requests one call may send

(***************************************************************************)
(* Values.                                                                 *)
(***************************************************************************)
NULL == "null"
NONE == "none"
NoData == "{}"

\* this._remoteIdentity before it is set (null): identities are URIs.
NoIdentity == <<>>

Tags == {"session-create", "session-answer", "session-trickle", "session-terminate"}

\* The values of message.state the server reports.
RemoteStates == {"progress", "accepted", "established", "terminated"}

\* message.event: only 'state' is handled.
EventKinds == {"state", "other"}

\* Destination URIs, as sequences of characters.
URIs == { <<"a">>, <<"a", "@", "x">> }

\* options.localStream: absent or a MediaStream.
Streams == {NULL, "stream"}

\* The error argument of a _sendRequest callback: absent or an error.
CbErrors == {NULL, "send-error"}

\* The candidates the RTCPeerConnection discovers; it reports each once in an
\* 'icecandidate' event and then the end of the candidates (a null candidate).
LocalCandidates == {"C"}
Candidates == LocalCandidates \cup {NULL}

\* The session id an invite carries, its caller and its offer.
InviteId == "s1"
InviteCaller == <<"b", "@", "x">>
InviteSdp == "offer-sdp"

\* The id uuidv4() generates.
GeneratedId == "uuid"

(***************************************************************************)
(* Pure helpers.                                                           *)
(***************************************************************************)
\* String.prototype.indexOf('@'): the first (1-based) position of "@", 0 for
\* JavaScript's -1.
RECURSIVE IndexFrom(_, _)
IndexFrom(uri, i) ==
    IF i > Len(uri) THEN 0
    ELSE IF uri[i] = "@" THEN i
    ELSE IndexFrom(uri, i + 1)

IndexOfAt(uri) == IndexFrom(uri, 1)

\* How many requests with this tag were sent.
CountTag(s, tag) == Len(s[tag])

\* How many notifications report this new state.
RECURSIVE CountNew(_, _)
CountNew(s, new) ==
    IF s = <<>> THEN 0
    ELSE (IF Head(s)[2] = new THEN 1 ELSE 0) + CountNew(Tail(s), new)

\* The candidates reported so far, with NULL for the end of the candidates.
Reported ==
    { IF sent["session-trickle"][i].payload = <<>> THEN NULL
      ELSE sent["session-trickle"][i].payload[1] : i \in 1..Len(sent["session-trickle"]) }

\* this.emit('stateChanged', oldState, newState, data)
Emit(old, new, reason) == Append(emitted, <<old, new, reason>>)

(***************************************************************************)
(* The state after new Call(account).                                      *)
(***************************************************************************)
Init ==
    /\ id = NULL
    /\ direction = NULL
    /\ pc = NULL
    /\ state = NULL
    /\ terminated = FALSE
    /\ incomingSdp = NULL
    /\ remoteIdentity = NoIdentity
    /\ delay_established = FALSE
    /\ setup_in_progress = FALSE
    /\ calls = FALSE
    /\ offerPending = 0
    /\ srdOffer = 0
    /\ answerSdp = 0
    /\ srdAnswer = 0
    /\ cb = [t \in Tags |-> 0]
    /\ timers = 0
    /\ sent = [t \in Tags |-> <<>>]
    /\ emitted = <<>>
    /\ thrown = NONE
    /\ pcCreated = 0
    /\ nEvents = 0
    /\ hist = <<>>

(***************************************************************************)
(* Private helpers of the class, as effects on the variables they write.   *)
(***************************************************************************)
\* _sendRequest(req, cb): the account takes the request and will call back.
\* c is the table of pending callbacks the request is added to.
SendRequestOn(c, tag, payload) ==
    /\ sent' = [sent EXCEPT ![tag] = Append(@, [session |-> id, payload |-> payload])]
    /\ cb' = [c EXCEPT ![tag] = @ + 1]

SendRequest(tag, payload) == SendRequestOn(cb, tag, payload)

\* _sendTerminate() without its setTimeout().
SendTerminateOn_NoTimer(c) ==
    /\ SendRequestOn(c, "session-terminate", NoData)
    /\ timers' = timers

\* _sendTerminate(): the request, and the 150 ms timer.
SendTerminateOn(c) ==
    /\ SendRequestOn(c, "session-terminate", NoData)
    /\ timers' = timers + 1

\* terminate(): writes sent, cb, timers.
TerminateCallOn(c) ==
    IF terminated
    THEN cb' = c /\ UNCHANGED <<sent, timers>>
    ELSE SendTerminateOn(c)

TerminateCall == TerminateCallOn(cb)

\* _localTerminate(error) without its check of this._terminated.
LocalTerminate_Unguarded(error) ==
    /\ calls' = FALSE
    /\ terminated' = TRUE
    /\ pc' = NULL
    /\ emitted' = Emit(state, "terminated", error)

\* _localTerminate(error): writes calls, terminated, pc, emitted.
\* _closeRTCPeerConnection() leaves this._pc null.
LocalTerminate(error) ==
    IF terminated
    THEN UNCHANGED <<calls, terminated, pc, emitted>>
    ELSE /\ calls' = FALSE
         /\ terminated' = TRUE
         /\ pc' = NULL
         /\ emitted' = Emit(state, "terminated", error)

\* _initRTCPeerConnection(pcConfig), called with this._pc null: writes pc, pcCreated.
InitRTCPeerConnection ==
    /\ pc' = "open"
    /\ pcCreated' = pcCreated + 1

\* The owning account keeps the call it created in its registry.
AccountRegister == calls' = TRUE

\* A handler that throws before it has written anything.
Throw(e) ==
    /\ thrown' = e
    /\ UNCHANGED <<fields, calls, pending, sent, emitted, pcCreated, nEvents, hist>>

(***************************************************************************)
(* The handlers.                                                           *)
(***************************************************************************)
\* _initOutgoing(uri, options) with the id, direction and remote identity set
\* before the URI and the stream are checked.
InitOutgoing_AssignsFirst(uri, stream) ==
    /\ direction = NULL
    /\ id' = GeneratedId
    /\ direction' = "outgoing"
    /\ remoteIdentity' = uri
    /\ IF IndexOfAt(uri) = 0
       THEN thrown' = "Invalid URI" /\ UNCHANGED <<pc, pcCreated, offerPending, calls>>
       ELSE IF stream = NULL
       THEN thrown' = "Missing localStream"
            /\ UNCHANGED <<pc, pcCreated, offerPending, calls>>
       ELSE /\ InitRTCPeerConnection
            /\ offerPending' = offerPending + 1
            /\ AccountRegister
            /\ thrown' = NONE
    /\ UNCHANGED <<state, terminated, incomingSdp, delay_established,
                   setup_in_progress, srdOffer, answerSdp, srdAnswer, cb,
                   timers, sent, emitted, nEvents, hist>>

\* account.call(uri, options) on a new Call: _initOutgoing(uri, options).
InitOutgoing(uri, stream) ==
    /\ direction = NULL
    /\ IF IndexOfAt(uri) = 0 THEN Throw("Invalid URI")
       ELSE IF stream = NULL THEN Throw("Missing localStream")
       ELSE /\ id' = GeneratedId
            /\ direction' = "outgoing"
            /\ remoteIdentity' = uri
            /\ IF pc # NULL
               THEN /\ thrown' = "RTCPeerConnection already initialized"
                    /\ UNCHANGED <<pc, pcCreated, offerPending, calls>>
               ELSE /\ InitRTCPeerConnection
                    /\ offerPending' = offerPending + 1
                    /\ AccountRegister
                    /\ thrown' = NONE
            /\ UNCHANGED <<state, terminated, incomingSdp, delay_established,
                           setup_in_progress, srdOffer, answerSdp, srdAnswer, cb,
                           timers, sent, emitted, nEvents, hist>>

\* An invite reaches the account: _initIncoming(id, caller, sdp) on a new Call.
InitIncoming ==
    /\ direction = NULL
    /\ id' = InviteId
    /\ remoteIdentity' = InviteCaller
    /\ incomingSdp' = InviteSdp
    /\ direction' = "incoming"
    /\ state' = "incoming"
    /\ AccountRegister
    /\ thrown' = NONE
    /\ UNCHANGED <<pc, terminated, delay_established, setup_in_progress, pending,
                   sent, emitted, pcCreated, nEvents, hist>>

\* answer(options)
Answer(stream) ==
    IF state # "incoming" THEN Throw("Call is not in the incoming state")
    ELSE IF stream = NULL THEN Throw("Missing localStream")
    ELSE IF pc # NULL THEN Throw("RTCPeerConnection already initialized")
    ELSE /\ InitRTCPeerConnection
         /\ srdOffer' = srdOffer + 1
         /\ thrown' = NONE
         /\ UNCHANGED <<id, direction, state, terminated, incomingSdp, remoteIdentity,
                        delay_established, setup_in_progress, calls, offerPending,
                        answerSdp, srdAnswer, cb, timers, sent, emitted, nEvents, hist>>

\* terminate(), called by the application on a call its account has set up.
Terminate ==
    /\ direction # NULL
    /\ terminated \/ CountTag(sent, "session-terminate") < MaxTerminate
    /\ TerminateCall
    /\ thrown' = NONE
    /\ UNCHANGED <<fields, calls, offerPending, srdOffer, answerSdp, srdAnswer,
                   emitted, pcCreated, nEvents, hist>>

\* The setTimeout callback without its call of _localTerminate('200 OK').
FireTimer_OnlySetsFlag ==
    /\ timers > 0
    /\ timers' = timers - 1
    /\ terminated' = TRUE
    /\ thrown' = NONE
    /\ UNCHANGED <<id, direction, pc, state, incomingSdp, remoteIdentity,
                   delay_established, setup_in_progress, calls, offerPending,
                   srdOffer, answerSdp, srdAnswer, cb, sent, emitted, pcCreated,
                   nEvents, hist>>

\* The setTimeout callback of _sendTerminate().
FireTimer ==
    /\ timers > 0
    /\ timers' = timers - 1
    /\ IF ~terminated
       THEN LocalTerminate("200 OK")
       ELSE UNCHANGED <<calls, pc, emitted>>
    /\ terminated' = TRUE
    /\ thrown' = NONE
    /\ UNCHANGED <<id, direction, state, incomingSdp, remoteIdentity,
                   delay_established, setup_in_progress, offerPending, srdOffer,
                   answerSdp, srdAnswer, cb, sent, pcCreated, nEvents, hist>>

\* The branches of _handleEvent's 'state' case; each writes emitted,
\* setup_in_progress, delay_established, srdAnswer, terminated, calls, pc, hist
\* and thrown.  this._state is already newState; oldState is the state before.

\* newState === 'accepted' on an outgoing call (lines 195-221).
\* this._pc.setRemoteDescription(...) on a null this._pc throws a TypeError.
OnAccepted(oldState) ==
    /\ emitted' = Emit(oldState, "accepted", NoData)
    /\ setup_in_progress' = TRUE
    /\ hist' = Append(hist, "accepted")
    /\ IF pc = NULL
       THEN thrown' = "TypeError" /\ UNCHANGED srdAnswer
       ELSE thrown' = NONE /\ srdAnswer' = srdAnswer + 1
    /\ UNCHANGED <<delay_established, terminated, calls, pc>>

\* The 'established' branch without the check of this._setup_in_progress: the
\* notification is always emitted at once.
OnEstablished_AlwaysEmits(oldState) ==
    /\ emitted' = Emit(oldState, "established", NoData)
    /\ hist' = Append(hist, "established")
    /\ thrown' = NONE
    /\ UNCHANGED <<delay_established, setup_in_progress, srdAnswer, terminated,
                   calls, pc>>

\* The 'established' branch deferring whether or not the remote answer is being
\* applied.
OnEstablished_AlwaysDefers(oldState) ==
    /\ delay_established' = TRUE
    /\ UNCHANGED emitted
    /\ hist' = Append(hist, "established")
    /\ thrown' = NONE
    /\ UNCHANGED <<setup_in_progress, srdAnswer, terminated, calls, pc>>

\* newState === 'established' on an outgoing call (lines 222-227).
OnEstablished(oldState) ==
    /\ IF setup_in_progress
       THEN delay_established' = TRUE /\ UNCHANGED emitted
       ELSE emitted' = Emit(oldState, "established", NoData)
            /\ UNCHANGED delay_established
    /\ hist' = Append(hist, "established")
    /\ thrown' = NONE
    /\ UNCHANGED <<setup_in_progress, srdAnswer, terminated, calls, pc>>

\* The 'terminated' branch without this._account._calls.delete(this.id).
OnTerminated_KeepsRegistered(oldState, reason) ==
    /\ emitted' = Emit(oldState, "terminated", reason)
    /\ terminated' = TRUE
    /\ calls' = calls
    /\ pc' = NULL
    /\ thrown' = NONE
    /\ UNCHANGED <<setup_in_progress, delay_established, srdAnswer, hist>>

\* newState === 'terminated' (lines 228-232).
OnTerminated(oldState, reason) ==
    /\ emitted' = Emit(oldState, "terminated", reason)
    /\ terminated' = TRUE
    /\ calls' = FALSE
    /\ pc' = NULL
    /\ thrown' = NONE
    /\ UNCHANGED <<setup_in_progress, delay_established, srdAnswer, hist>>

\* Any other new state (lines 233-235).
OnOtherState(oldState, newState) ==
    /\ emitted' = Emit(oldState, newState, NoData)
    /\ thrown' = NONE
    /\ UNCHANGED <<setup_in_progress, delay_established, srdAnswer, terminated,
                   calls, pc, hist>>

\* _handleEvent(message) with message = {event, state, reason}.
HandleEvent(event, newState, reason) ==
    /\ direction # NULL
    /\ event = "state" => nEvents < MaxEvents
    /\ nEvents' = IF event = "state" THEN nEvents + 1 ELSE nEvents
    /\ IF event # "state"
       THEN /\ thrown' = NONE
            /\ UNCHANGED <<state, emitted, setup_in_progress, delay_established,
                           srdAnswer, terminated, calls, pc, hist>>
       ELSE /\ state' = newState
            /\ IF newState = "accepted" /\ direction = "outgoing"
               THEN OnAccepted(state)
               ELSE IF newState = "established" /\ direction = "outgoing"
               THEN OnEstablished(state)
               ELSE IF newState = "terminated"
               THEN OnTerminated(state, reason)
               ELSE OnOtherState(state, newState)
    /\ UNCHANGED <<id, direction, incomingSdp, remoteIdentity, offerPending, srdOffer,
                   answerSdp, cb, timers, sent, pcCreated>>

\* The success callback without this._setup_in_progress = false.
AcceptSetRemoteSuccess_KeepsInProgress ==
    /\ srdAnswer > 0
    /\ srdAnswer' = srdAnswer - 1
    /\ IF ~terminated /\ delay_established
       THEN /\ state' = "established"
            /\ emitted' = Emit(state, "established", NoData)
            /\ delay_established' = FALSE
       ELSE UNCHANGED <<state, emitted, delay_established>>
    /\ hist' = Append(hist, "srd_ok")
    /\ thrown' = NONE
    /\ UNCHANGED <<id, direction, pc, terminated, incomingSdp, remoteIdentity, calls,
                   setup_in_progress, offerPending, srdOffer, answerSdp, cb, timers,
                   sent, pcCreated, nEvents>>

\* The success callback without its check of this._terminated.
AcceptSetRemoteSuccess_IgnoresTerminated ==
    /\ srdAnswer > 0
    /\ srdAnswer' = srdAnswer - 1
    /\ setup_in_progress' = FALSE
    /\ IF delay_established
       THEN /\ state' = "established"
            /\ emitted' = Emit(state, "established", NoData)
            /\ delay_established' = FALSE
       ELSE UNCHANGED <<state, emitted, delay_established>>
    /\ hist' = Append(hist, "srd_ok")
    /\ thrown' = NONE
    /\ UNCHANGED <<id, direction, pc, terminated, incomingSdp, remoteIdentity, calls,
                   offerPending, srdOffer, answerSdp, cb, timers, sent, pcCreated,
                   nEvents>>

\* The success callback of setRemoteDescription(answer), lines 204-215.
AcceptSetRemoteSuccess ==
    /\ srdAnswer > 0
    /\ srdAnswer' = srdAnswer - 1
    /\ setup_in_progress' = FALSE
    /\ IF ~terminated /\ delay_established
       THEN /\ state' = "established"
            /\ emitted' = Emit(state, "established", NoData)
            /\ delay_established' = FALSE
       ELSE UNCHANGED <<state, emitted, delay_established>>
    /\ hist' = Append(hist, "srd_ok")
    /\ thrown' = NONE
    /\ UNCHANGED <<id, direction, pc, terminated, incomingSdp, remoteIdentity, calls,
                   offerPending, srdOffer, answerSdp, cb, timers, sent, pcCreated,
                   nEvents>>

\* The failure callback of setRemoteDescription(answer), lines 217-220.
AcceptSetRemoteFailure ==
    /\ srdAnswer > 0
    /\ srdAnswer' = srdAnswer - 1
    /\ TerminateCall
    /\ hist' = Append(hist, "srd_fail")
    /\ thrown' = NONE
    /\ UNCHANGED <<fields, calls, offerPending, srdOffer, answerSdp, emitted,
                   pcCreated, nEvents>>

\* createLocalSdp(pc, 'offer') resolves: _sendCall(uri, sdp).
OfferCreated ==
    /\ offerPending > 0
    /\ offerPending' = offerPending - 1
    /\ SendRequest("session-create", <<remoteIdentity, "local-offer">>)
    /\ thrown' = NONE
    /\ UNCHANGED <<fields, calls, srdOffer, answerSdp, srdAnswer, timers, emitted,
                   pcCreated, nEvents, hist>>

\* createLocalSdp(pc, 'offer') rejects: _localTerminate(reason).
OfferFailed ==
    /\ offerPending > 0
    /\ offerPending' = offerPending - 1
    /\ LocalTerminate("offer-error")
    /\ thrown' = NONE
    /\ UNCHANGED <<id, direction, state, incomingSdp, remoteIdentity,
                   delay_established, setup_in_progress, srdOffer, answerSdp,
                   srdAnswer, cb, timers, sent, pcCreated, nEvents, hist>>

\* The success callback of setRemoteDescription(offer) in answer(): the answer
\* is created on this._pc; with this._pc null there is nothing to create it on
\* and the promise rejects at once, which calls terminate().
AnswerSetRemoteSuccess ==
    /\ srdOffer > 0
    /\ srdOffer' = srdOffer - 1
    /\ IF pc = NULL
       THEN TerminateCall /\ UNCHANGED answerSdp
       ELSE answerSdp' = answerSdp + 1 /\ UNCHANGED <<sent, cb, timers>>
    /\ thrown' = NONE
    /\ UNCHANGED <<fields, calls, offerPending, srdAnswer, emitted, pcCreated,
                   nEvents, hist>>

\* The failure callback of setRemoteDescription(offer) in answer(): terminate().
AnswerSetRemoteFailure ==
    /\ srdOffer > 0
    /\ srdOffer' = srdOffer - 1
    /\ TerminateCall
    /\ thrown' = NONE
    /\ UNCHANGED <<fields, calls, offerPending, answerSdp, srdAnswer, emitted,
                   pcCreated, nEvents, hist>>

\* createLocalSdp(pc, 'answer') resolves: _sendAnswer(sdp).
AnswerCreated ==
    /\ answerSdp > 0
    /\ answerSdp' = answerSdp - 1
    /\ SendRequest("session-answer", "local-answer")
    /\ thrown' = NONE
    /\ UNCHANGED <<fields, calls, offerPending, srdOffer, srdAnswer, timers, emitted,
                   pcCreated, nEvents, hist>>

\* createLocalSdp(pc, 'answer') rejects: terminate().
AnswerFailed ==
    /\ answerSdp > 0
    /\ answerSdp' = answerSdp - 1
    /\ TerminateCall
    /\ thrown' = NONE
    /\ UNCHANGED <<fields, calls, offerPending, srdOffer, srdAnswer, emitted,
                   pcCreated, nEvents, hist>>

\* The callback the account invokes for a request of this tag, with or without
\* an error (lines 274-279, 287-292, 308-313, 322-327).
RequestCallback(tag, error) ==
    /\ cb[tag] > 0
    /\ LET done == [cb EXCEPT ![tag] = @ - 1] IN
       IF error = NULL
       THEN cb' = done /\ UNCHANGED <<sent, timers, calls, terminated, pc, emitted>>
       ELSE IF tag = "session-answer"
       THEN TerminateCallOn(done) /\ UNCHANGED <<calls, terminated, pc, emitted>>
       ELSE cb' = done /\ LocalTerminate(error) /\ UNCHANGED <<sent, timers>>
    /\ thrown' = NONE
    /\ UNCHANGED <<id, direction, state, incomingSdp, remoteIdentity,
                   delay_established, setup_in_progress, offerPending, srdOffer,
                   answerSdp, srdAnswer, pcCreated, nEvents, hist>>

\* The listener with _sendTrickle() wrapping every candidate, also the null one
\* that marks the end: candidates: [candidate].
IceCandidate_WrapsEndMarker(candidate) ==
    /\ pc # NULL
    /\ candidate \notin Reported
    /\ candidate = NULL => LocalCandidates \subseteq Reported
    /\ SendRequest("session-trickle", <<candidate>>)
    /\ thrown' = NONE
    /\ UNCHANGED <<fields, calls, offerPending, srdOffer, answerSdp, srdAnswer,
                   timers, emitted, pcCreated, nEvents, hist>>

\* The 'icecandidate' listener of the RTCPeerConnection: _sendTrickle(candidate).
IceCandidate(candidate) ==
    /\ pc # NULL
    /\ candidate \notin Reported
    /\ candidate = NULL => LocalCandidates \subseteq Reported
    /\ SendRequest("session-trickle", IF candidate # NULL THEN <<candidate>> ELSE <<>>)
    /\ thrown' = NONE
    /\ UNCHANGED <<fields, calls, offerPending, srdOffer, answerSdp, srdAnswer,
                   timers, emitted, pcCreated, nEvents, hist>>

\* The connection hands a session event to the call its account's registry
\* holds under the event's session id; a call no longer in the registry gets none.
RouteEvent(event, newState, reason) ==
    /\ calls
    /\ HandleEvent(event, newState, reason)

(***************************************************************************)
(* The specifications.                                                     *)
(***************************************************************************)
\* What the application, the timers, the RTCPeerConnection and the account's
\* request callbacks do.
Local ==
    \/ \E uri \in URIs, stream \in Streams : InitOutgoing(uri, stream)
    \/ InitIncoming
    \/ \E stream \in Streams : Answer(stream)
    \/ Terminate
    \/ FireTimer
    \/ AcceptSetRemoteSuccess
    \/ AcceptSetRemoteFailure
    \/ OfferCreated
    \/ OfferFailed
    \/ AnswerSetRemoteSuccess
    \/ AnswerSetRemoteFailure
    \/ AnswerCreated
    \/ AnswerFailed
    \/ \E tag \in Tags, error \in CbErrors : RequestCallback(tag, error)
    \/ \E candidate \in Candidates : IceCandidate(candidate)

\* The call inside its account: remote events reach it through the registry.
Next ==
    \/ Local
    \/ \E event \in EventKinds, newState \in RemoteStates :
          RouteEvent(event, newState, "remote-reason")

Spec == Init /\ [][Next]_vars

\* The event loop runs a timer callback whose delay has elapsed.
FairSpec == Spec /\ WF_vars(FireTimer)

\* The class on its own: _handleEvent(message) called at any time after the
\* call was set up, also after it left the registry.
NextDirect ==
    \/ Local
    \/ \E event \in EventKinds, newState \in RemoteStates :
          HandleEvent(event, newState, "remote-reason")

SpecDirect == Init /\ [][NextDirect]_vars

(***************************************************************************)
(* The claims.                                                             *)
(***************************************************************************)
\* How many 'stateChanged' notifications reported the new state 'established'.
EstablishedNotifications == CountNew(emitted, "established")

\* The call is outgoing and its first two remote events were 'accepted' and then
\* 'established', the second one before any callback of the remote answer's
\* application.
AcceptedThenEstablishedEarly ==
    /\ direction = "outgoing"
    /\ Len(hist) >= 2
    /\ hist[1] = "accepted"
    /\ hist[2] = "established"

\* C1: an outgoing call gets 'accepted' and then 'established' while the remote
\* answer is still being applied: no 'established' notification is emitted
\* before the application has succeeded, none when it fails, and once it has
\* succeeded on a call that is still alive exactly one was emitted (a call that
\* terminated meanwhile emits none).
C1_NotBeforeApplied ==
    AcceptedThenEstablishedEarly =>
        /\ Len(hist) = 2 => EstablishedNotifications = 0
        /\ (Len(hist) = 3 /\ hist[3] = "srd_fail") => EstablishedNotifications = 0
        /\ (Len(hist) = 3 /\ hist[3] = "srd_ok") =>
              \/ EstablishedNotifications = 1
              \/ EstablishedNotifications = 0 /\ terminated

C1_DeferredEstablishedOnce ==
    /\ []C1_NotBeforeApplied
    /\ [][(hist = <<"accepted", "established">> /\ hist' = Append(hist, "srd_ok")
            /\ ~terminated) =>
              /\ EstablishedNotifications = 0
              /\ EstablishedNotifications' = 1
              /\ emitted' = Append(emitted, <<state, "established", NoData>>)]_vars

\* C1's case: the deferred notification was emitted when the application succeeded.
C1_Witness ==
    /\ hist = <<"accepted", "established", "srd_ok">>
    /\ EstablishedNotifications = 1
    /\ state = "established"
    /\ ~terminated

\* C2: an outgoing call gets 'accepted', the remote answer's application
\* succeeds, and only then 'established' arrives: the handler of that event
\* emits the notification itself and does not set delay_established.
C2_ImmediateEstablished ==
    [][(hist = <<"accepted", "srd_ok">> /\ hist' = Append(hist, "established")) =>
          /\ emitted' = Append(emitted, <<state, "established", NoData>>)
          /\ state' = "established"
          /\ ~delay_established /\ ~delay_established']_vars

\* C2's case: 'established' arrived after the application had succeeded.
C2_Witness ==
    /\ hist = <<"accepted", "srd_ok", "established">>
    /\ EstablishedNotifications = 1
    /\ ~delay_established

\* C3 as claimed: however often terminate() is called, one session-terminate
\* request is sent and one timer armed.
C3_TerminateOnce ==
    /\ CountTag(sent, "session-terminate") <= 1
    /\ timers <= 1

\* C4 as claimed: a terminated call sends no request.
C4_NoSendAfterTerminated == [][terminated => sent' = sent]_vars

\* C5: the timer of terminate() finalizes a call nothing has finalized yet, with
\* exactly one notification <<state, 'terminated', '200 OK'>> and the teardown;
\* on a call already finalized (by a remote 'terminated' event, a send failure)
\* it emits nothing and tears nothing down.
C5_TimerFinalizes ==
    [][FireTimer =>
          IF ~terminated
          THEN /\ emitted' = Append(emitted, <<state, "terminated", "200 OK">>)
               /\ terminated' /\ pc' = NULL /\ ~calls'
          ELSE /\ emitted' = emitted /\ pc' = pc /\ calls' = calls /\ terminated'
               /\ sent' = sent]_vars

\* C5's case: a remote 'terminated' event finalized the call after terminate(),
\* and the timer has fired since.
C5_Witness ==
    /\ CountTag(sent, "session-terminate") = 1
    /\ timers = 0
    /\ emitted = << <<NULL, "terminated", "remote-reason">> >>

C7_EventuallyTerminated == (CountTag(sent, "session-terminate") > 0) ~> terminated

\* C7's case: the remote side stayed silent (no callback, no event) and the call
\* is terminated.
C7_Witness ==
    /\ terminated
    /\ cb["session-terminate"] = 1
    /\ CountTag(sent, "session-terminate") = 1
    /\ nEvents = 0
    /\ timers = 0

\* C8 as claimed: a call never constructs a second RTCPeerConnection.
C8_OnePeerConnection == pcCreated <= 1

\* The errors of the precondition checks of _initOutgoing() and answer().
PreconditionErrors ==
    {"Invalid URI", "Missing localStream", "Call is not in the incoming state"}

\* C9: a call of _initOutgoing() with a URI without '@' or without a local
\* stream, and a call of answer() without a local stream or on a call whose
\* state is not 'incoming', throws, and the step changes no field of the call,
\* constructs no RTCPeerConnection, sends nothing and starts nothing.
C9_PreconditionsFailClean ==
    [][/\ thrown' \in PreconditionErrors =>
            UNCHANGED <<fields, calls, pending, sent, emitted, pcCreated>>
       /\ \A uri \in URIs, stream \in Streams :
            (InitOutgoing(uri, stream) /\ (IndexOfAt(uri) = 0 \/ stream = NULL)) =>
                thrown' \in PreconditionErrors
       /\ \A stream \in Streams :
            (Answer(stream) /\ (state # "incoming" \/ stream = NULL)) =>
                thrown' \in PreconditionErrors]_vars

\* C9's case: answer() without a stream on an incoming call: the call is as
\* _initIncoming() left it.
C9_Witness ==
    /\ thrown = "Missing localStream"
    /\ state = "incoming"
    /\ pc = NULL
    /\ pcCreated = 0

\* C10 as claimed: a terminated call's state does not change and it emits no
\* notification.
C10_FrozenAfterTerminated ==
    [][terminated => (state' = state /\ emitted' = emitted)]_vars

\* C11 as claimed: _initOutgoing() with an '@' URI and a local stream takes the
\* state from null to 'outgoing-pending', and the step in which the offer's
\* creation succeeds sends the call's one session-create request, with the
\* generated id, the URI and the offer.
C11_OutgoingPendingThenCreate ==
    [][/\ \A uri \in URIs, stream \in Streams :
            (InitOutgoing(uri, stream) /\ IndexOfAt(uri) # 0 /\ stream # NULL) =>
                (state = NULL /\ state' = "outgoing-pending")
       /\ OfferCreated =>
            sent'["session-create"] =
                << [session |-> GeneratedId,
                    payload |-> <<remoteIdentity, "local-offer">>] >>]_vars

\* C12 as claimed: the invite sends nothing; a session-answer request is sent
\* only by the step that settles a successful creation of the local answer,
\* which is started only by the success callback of the offer's application on
\* an open RTCPeerConnection; it carries the invite's session id and is sent at
\* most once.
C12_AnswerAfterNegotiationOnce ==
    [][/\ InitIncoming => sent' = sent
       /\ sent'["session-answer"] # sent["session-answer"] =>
            /\ answerSdp > 0 /\ answerSdp' = answerSdp - 1
            /\ sent'["session-answer"] =
                  << [session |-> InviteId, payload |-> "local-answer"] >>
       /\ answerSdp' > answerSdp =>
            /\ srdOffer > 0 /\ srdOffer' = srdOffer - 1
            /\ answerSdp' = answerSdp + 1
            /\ pc # NULL]_vars

\* C13: every 'icecandidate' event sends, in its own handler, exactly one
\* session-trickle request for this session: a candidate C as <<C>>, the end of
\* the candidates as the empty sequence, appended in the order of the events;
\* no other step sends a session-trickle request.  So C and then the end give
\* two requests, the second one empty.
C13_OneTricklePerCandidate ==
    [][/\ \A candidate \in Candidates :
            IceCandidate(candidate) =>
                sent' = [sent EXCEPT !["session-trickle"] =
                            Append(@, [session |-> id,
                                       payload |-> IF candidate = NULL THEN <<>>
                                                   ELSE <<candidate>>])]
       /\ sent'["session-trickle"] # sent["session-trickle"] =>
            /\ \E candidate \in Candidates : IceCandidate(candidate)
            /\ Len(sent'["session-trickle"]) = Len(sent["session-trickle"]) + 1
       /\ (NULL \in Reported' /\ NULL \notin Reported) =>
            /\ Len(sent'["session-trickle"]) = Cardinality(LocalCandidates) + 1
            /\ sent'["session-trickle"][Len(sent'["session-trickle"])].payload = <<>>]_vars

\* C13's case: the candidate C was discovered, then the end of the candidates.
C13_Witness ==
    /\ Len(sent["session-trickle"]) = 2
    /\ sent["session-trickle"][1] = [session |-> id, payload |-> <<"C">>]
    /\ sent["session-trickle"][2] = [session |-> id, payload |-> <<>>]

\* C14 as claimed: a send failure reported for a session-create, session-answer
\* or session-trickle request of a live call finalizes the call in that
\* callback: no request is sent, no timer armed, and the one 'terminated'
\* notification carries the error.
C14_SendFailureLocalOnly ==
    [][\A tag \in {"session-create", "session-answer", "session-trickle"} :
          (RequestCallback(tag, "send-error") /\ ~terminated) =>
              /\ terminated'
              /\ sent' = sent
              /\ timers' = timers
              /\ emitted' = Append(emitted, <<state, "terminated", "send-error">>)]_vars

\* C15 as claimed: a terminated call's state is 'terminated'.
C15_TerminatedState == terminated => state = "terminated"

\* C16 as claimed: while an 'established' event is deferred on a live outgoing
\* call, the state is 'accepted'; the success callback that ends the deferral
\* sets it to 'established' and its notification reports accepted -> established.
C16_AcceptedWhileDeferred ==
    /\ []((delay_established /\ setup_in_progress /\ ~terminated) => state = "accepted")
    /\ [][(AcceptSetRemoteSuccess /\ delay_established /\ ~terminated) =>
              /\ state' = "established"
              /\ emitted' = Append(emitted, <<"accepted", "established", NoData>>)]_vars

\* C17: when the remote answer's application succeeds on a call that deferred
\* an 'established' event and was terminated since, the callback emits no
\* notification and does not assign the state.
C17_NoReplayAfterTerminated ==
    [][(AcceptSetRemoteSuccess /\ delay_established /\ terminated) =>
          /\ emitted' = emitted
          /\ state' = state
          /\ EstablishedNotifications' = EstablishedNotifications]_vars

\* C17's case: 'accepted', 'established' deferred, the call terminated, and then
\* the application succeeded: the deferred event was never reported.
C17_Witness ==
    /\ hist = <<"accepted", "established", "srd_ok">>
    /\ terminated
    /\ delay_established
    /\ ~setup_in_progress
    /\ EstablishedNotifications = 0

\* The states in which the claim has an RTCPeerConnection.
StatesWithPeerConnection == {"outgoing-pending", "incoming", "accepted", "established"}

\* C18 as claimed: between handlers the RTCPeerConnection is non-null exactly
\* when the state is outgoing-pending, incoming, accepted or established.
C18_PeerConnectionIffActive == (pc # NULL) <=> (state \in StatesWithPeerConnection)

C20_TerminatedNotRegistered == terminated => ~calls

\* C20's case: a call that was registered was finalized by a send failure.
C20_Witness ==
    /\ terminated
    /\ ~calls
    /\ Len(emitted) = 1
    /\ emitted[1][2] = "terminated"
    /\ emitted[1][3] = "send-error"

====
